---- MODULE Spec2Model ----
(***************************************************************************)
(* Model of treex.nn.Conv (src/treex/nn/conv.py) and of the example        *)
(* training program (src/examples/cnn.py).                                 *)
(*                                                                         *)
(* Two state machines share the module:                                    *)
(*   Spec      - one Conv object and the operations on it                  *)
(*               (module_init, Module.init, __call__);                     *)
(*   SpecMain  - the control flow of examples/cnn.py main().               *)
(*                                                                         *)
(* Encodings.  An Optional value is a sequence of length at most one:      *)
(* None is <<>> and a present value v is <<v>>.  kernel_size, which the    *)
(* code accepts as an int or as a sequence of ints, is the record          *)
(* [isInt, dims]: an int k is [isInt |-> TRUE, dims |-> <<k>>].  An array  *)
(* is represented by what determines it: its shape, the initializer that   *)
(* produced it and the PRNG key.                                           *)
(***************************************************************************)
EXTENDS Integers, Sequences, FiniteSets, TLC

VARIABLES
    ctor,       \* the arguments the Conv constructor was called with
    self,       \* the Conv object: hyperparameters, kernel, bias, initialized
    lastInit,   \* the last completed module_init: dummy input shape, variables
    lastApply,  \* the last self.module.apply(...) made by __call__
    event,      \* the last operation on the Conv object and its outcome
    pc,         \* main(): position in the program
    args,       \* main(): epochs, steps_per_epoch and the dataset sizes (in batches)
    epoch,      \* main(): loop variable of the epoch loop
    step,       \* main(): loop variable of the running inner loop
    model,      \* main(): the variable `model`
    optimizer,  \* main(): the variable `optimizer`
    mode,       \* main(): the most recent mode switch, its epoch, the switches so far
    trace       \* main(): Optimizer.init calls made, and the last step call

convVars == <<ctor, self, lastInit, lastApply, event>>
mainVars == <<pc, args, epoch, step, model, optimizer, mode, trace>>
vars == <<ctor, self, lastInit, lastApply, event,
          pc, args, epoch, step, model, optimizer, mode, trace>>

----------------------------------------------------------------------------
(* Bounds of the model *)

MaxFeatures == 2    \* features_in, features_out range over 1..MaxFeatures
MaxKernel == 2      \* entries of kernel_size range over 1..MaxKernel
MaxKey == 2         \* PRNG keys range over 1..MaxKey
MaxCount == 2       \* completed module_init calls are counted up to MaxCount
MaxEpochs == 2      \* main(): epochs ranges over 0..MaxEpochs
MaxSteps == 2       \* main(): steps per epoch and batches per dataset, at most
MaxIdx == 2         \* main(): sampled batches range over 0..MaxIdx-1
ValMod == 3         \* abstract array values range over 0..ValMod-1

None == <<>>
Some(v) == <<v>>

Min(a, b) == IF a <= b THEN a ELSE b

RECURSIVE SeqMin(_)
\* Python's min() over a non-empty sequence
SeqMin(s) == IF Len(s) = 1 THEN s[1] ELSE Min(s[1], SeqMin(Tail(s)))

\* Python's list(range(lo, hi))
Range(lo, hi) == [i \in 1..(IF hi > lo THEN hi - lo ELSE 0) |-> lo + i - 1]

----------------------------------------------------------------------------
(* Conv: constructor arguments *)

KernelSizes ==
    {[isInt |-> TRUE, dims |-> <<k>>] : k \in 1..MaxKernel}
    \cup {[isInt |-> FALSE, dims |-> d] : d \in [1..1 -> 1..MaxKernel]}
    \cup {[isInt |-> FALSE, dims |-> d] : d \in [1..2 -> 1..MaxKernel]}
    \cup {[isInt |-> FALSE, dims |-> <<>>]}

\* The keyword arguments left at their defaults (conv.py:53-68)
DefaultOptions ==
    [strides |-> None, padding |-> "SAME", input_dilation |-> None,
     kernel_dilation |-> None, feature_group_count |-> 1,
     dtype |-> "float32", precision |-> None,
     kernel_init |-> "default_kernel_init", bias_init |-> "zeros"]

\* Every keyword argument given, each with a value no other argument has
CustomOptions ==
    [strides |-> Some("strides=2"), padding |-> "VALID",
     input_dilation |-> Some("input_dilation=3"),
     kernel_dilation |-> Some("kernel_dilation=4"), feature_group_count |-> 1,
     dtype |-> "float16", precision |-> Some("HIGHEST"),
     kernel_init |-> "lecun_normal", bias_init |-> "ones"]

CtorArgs ==
    {[features_in |-> fi, features_out |-> fo, kernel_size |-> ks,
      use_bias |-> ub, options |-> o] :
        fi \in 1..MaxFeatures, fo \in 1..MaxFeatures, ks \in KernelSizes,
        ub \in BOOLEAN, o \in {DefaultOptions, CustomOptions}}

\* Conv.__init__
Conv_init(a) ==
    [features_in |-> a.features_in,
     features_out |-> a.features_out,
     kernel_size |-> a.kernel_size,
     strides |-> a.options.strides,
     padding |-> a.options.padding,
     input_dilation |-> a.options.input_dilation,
     kernel_dilation |-> a.options.kernel_dilation,
     feature_group_count |-> a.options.feature_group_count,
     use_bias |-> a.use_bias,
     dtype |-> a.options.dtype,
     precision |-> a.options.precision,
     kernel_init |-> a.options.kernel_init,
     bias_init |-> a.options.bias_init,
     kernel |-> None,
     bias |-> None,
     initialized |-> FALSE]

\* A bug: the input feature count handed to flax as `features`
Conv_module_swapped(s) ==
    [features |-> s.features_in,
     kernel_size |-> s.kernel_size,
     strides |-> s.strides,
     padding |-> s.padding,
     input_dilation |-> s.input_dilation,
     kernel_dilation |-> s.kernel_dilation,
     feature_group_count |-> s.feature_group_count,
     use_bias |-> s.use_bias,
     dtype |-> s.dtype,
     precision |-> s.precision,
     kernel_init |-> s.kernel_init,
     bias_init |-> s.bias_init]

\* Conv.module: the flax Conv built from the object's fields
Conv_module(s) ==
    [features |-> s.features_out,
     kernel_size |-> s.kernel_size,
     strides |-> s.strides,
     padding |-> s.padding,
     input_dilation |-> s.input_dilation,
     kernel_dilation |-> s.kernel_dilation,
     feature_group_count |-> s.feature_group_count,
     use_bias |-> s.use_bias,
     dtype |-> s.dtype,
     precision |-> s.precision,
     kernel_init |-> s.kernel_init,
     bias_init |-> s.bias_init]

----------------------------------------------------------------------------
(* The wrapped flax Conv, as far as Conv relies on it *)

\* The spatial rank flax reads off kernel_size
SpatialRank(m) == IF m.kernel_size.isInt THEN 1 ELSE Len(m.kernel_size.dims)

\* flax Conv.init(key, x).unfreeze(): the "params" collection holds "kernel",
\* and "bias" only when use_bias is set
FlaxInit(m, key, xshape) ==
    LET in_features == xshape[Len(xshape)]
    IN [params |->
         [kernel |-> Some([shape |-> m.kernel_size.dims \o
                               <<in_features \div m.feature_group_count, m.features>>,
                           init |-> m.kernel_init, key |-> key]),
          bias |-> IF m.use_bias
                   THEN Some([shape |-> <<m.features>>, init |-> m.bias_init, key |-> key])
                   ELSE None]]

\* flax Conv.apply({"params": params}, x) succeeds when x has the spatial rank
\* of the kernel (with or without a batch dimension) and the stored kernel has
\* the shape the input's feature count asks for
FlaxApplyOk(m, params, xshape) ==
    /\ params.kernel # None
    /\ params.kernel[1] # None
    /\ Len(xshape) \in {SpatialRank(m) + 1, SpatialRank(m) + 2}
    /\ params.kernel[1][1].shape =
         m.kernel_size.dims \o
           <<xshape[Len(xshape)] \div m.feature_group_count, m.features>>

NoVariables == [params |-> [kernel |-> None, bias |-> None]]

----------------------------------------------------------------------------
(* Conv.module_init *)

\* A bug: a batch dimension added in front of the spatial dimensions
DummyShape_batched(s) ==
    LET m == Conv_module(s)
        ndim == SpatialRank(m)
        mindim == 2 * (IF m.kernel_size.isInt THEN m.kernel_size.dims[1]
                       ELSE SeqMin(m.kernel_size.dims))
        shape == Range(mindim, mindim + ndim + 2)
    IN [shape EXCEPT ![Len(shape)] = s.features_in]

\* The shape of the dummy input of module_init (conv.py:135-145)
DummyShape(s) ==
    LET m == Conv_module(s)
        ndim == IF m.kernel_size.isInt THEN 1 ELSE Len(m.kernel_size.dims)
        mindim == 2 * (IF m.kernel_size.isInt THEN m.kernel_size.dims[1]
                       ELSE SeqMin(m.kernel_size.dims))
        shape == Range(mindim, mindim + ndim + 1)
    IN [shape EXCEPT ![Len(shape)] = s.features_in]

\* min() of an empty kernel_size raises ValueError (conv.py:140)
ModuleInitFails(s) ==
    /\ ~Conv_module(s).kernel_size.isInt
    /\ Conv_module(s).kernel_size.dims = <<>>

\* A bug: bias taken from the initializer whether or not use_bias is set
Conv_module_init_bias_always(s, key) ==
    LET shape == DummyShape(s)
        variables == FlaxInit(Conv_module(s), key, shape)
    IN [self |-> [s EXCEPT !.kernel = Some(variables.params.kernel[1]),
                           !.bias = Some([shape |-> <<s.features_out>>,
                                          init |-> s.bias_init, key |-> key])],
        shape |-> shape,
        variables |-> variables]

\* Conv.module_init(key), when it completes: the object afterwards, the dummy
\* input's shape and the variables flax returned
Conv_module_init(s, key) ==
    LET shape == DummyShape(s)
        variables == FlaxInit(Conv_module(s), key, shape)
    IN [self |-> [s EXCEPT !.kernel = Some(variables.params.kernel[1]),
                           !.bias = IF s.use_bias
                                    THEN Some(variables.params.bias[1])
                                    ELSE s.bias],
        shape |-> shape,
        variables |-> variables]

----------------------------------------------------------------------------
(* Conv.__call__ *)

XShapes ==
    {[Range(4, 4 + r) EXCEPT ![r] = f] : r \in 2..4, f \in 1..MaxFeatures}

\* A bug: the forward pass without the assertion
Conv_call_unguarded(s, x) ==
    LET params == [kernel |-> Some(s.kernel),
                   bias |-> IF s.use_bias THEN Some(s.bias) ELSE None]
    IN [self |-> s,
        applied |-> TRUE,
        apply |-> [module |-> Conv_module(s), params |-> params,
                   initialized |-> s.initialized],
        ok |-> FlaxApplyOk(Conv_module(s), params, x),
        error |-> IF FlaxApplyOk(Conv_module(s), params, x) THEN "" ELSE "flax"]

\* A bug: the forward pass casts the kernel to dtype and keeps the cast one
Conv_call_storing(s, x) ==
    LET params == [kernel |-> Some(s.kernel),
                   bias |-> IF s.use_bias THEN Some(s.bias) ELSE None]
    IN IF ~s.initialized
       THEN [self |-> s, applied |-> FALSE,
             apply |-> [module |-> Conv_module(s), params |-> params,
                        initialized |-> s.initialized],
             ok |-> FALSE, error |-> "Module not initialized"]
       ELSE [self |-> [s EXCEPT !.kernel = Some([s.kernel[1] EXCEPT !.init = "cast"])],
             applied |-> TRUE,
             apply |-> [module |-> Conv_module(s), params |-> params,
                        initialized |-> s.initialized],
             ok |-> FlaxApplyOk(Conv_module(s), params, x),
             error |-> IF FlaxApplyOk(Conv_module(s), params, x) THEN "" ELSE "flax"]

\* Conv.__call__(x): the object afterwards, whether and with what the wrapped
\* module was applied, and the outcome.  The params dict holds "kernel", and
\* "bias" only when use_bias is set.
Conv_call(s, x) ==
    LET params == [kernel |-> Some(s.kernel),
                   bias |-> IF s.use_bias THEN Some(s.bias) ELSE None]
    IN IF ~s.initialized
       THEN [self |-> s, applied |-> FALSE,
             apply |-> [module |-> Conv_module(s), params |-> params,
                        initialized |-> s.initialized],
             ok |-> FALSE, error |-> "Module not initialized"]
       ELSE [self |-> s,
             applied |-> TRUE,
             apply |-> [module |-> Conv_module(s), params |-> params,
                        initialized |-> s.initialized],
             ok |-> FlaxApplyOk(Conv_module(s), params, x),
             error |-> IF FlaxApplyOk(Conv_module(s), params, x) THEN "" ELSE "flax"]

----------------------------------------------------------------------------
(* The Conv state machine *)

NoApply ==
    [happened |-> FALSE, module |-> Conv_module(Conv_init(CHOOSE a \in CtorArgs : TRUE)),
     params |-> [kernel |-> None, bias |-> None], initialized |-> FALSE]

MainIdle ==
    /\ pc = "idle"
    /\ args = [epochs |-> 0, steps_per_epoch |-> 0, n_train |-> 0, n_test |-> 0]
    /\ epoch = 0
    /\ step = 0
    /\ model = None
    /\ optimizer = None
    /\ mode = [switch |-> "none", epoch |-> 0, n |-> 0]
    /\ trace = [opt_inits |-> <<>>, op |-> "none", mode |-> mode, epoch |-> 0,
                training |-> FALSE, out |-> 0, k |-> 0, prev |-> None,
                call |-> None]

Init ==
    /\ ctor \in CtorArgs
    /\ self = Conv_init(ctor)
    /\ lastInit = [happened |-> FALSE, count |-> 0, key |-> 0, shape |-> <<>>,
                   variables |-> NoVariables]
    /\ lastApply = NoApply
    /\ event = [op |-> "__init__", ok |-> TRUE, error |-> ""]
    /\ MainIdle

\* self.module_init(key) called directly
ModuleInit(key) ==
    /\ IF ModuleInitFails(self)
       THEN /\ event' = [op |-> "module_init", ok |-> FALSE, error |-> "ValueError"]
            /\ UNCHANGED <<self, lastInit>>
       ELSE LET r == Conv_module_init(self, key)
            IN /\ self' = r.self
               /\ lastInit' = [happened |-> TRUE,
                               count |-> Min(lastInit.count + 1, MaxCount),
                               key |-> key, shape |-> r.shape,
                               variables |-> r.variables]
               /\ event' = [op |-> "module_init", ok |-> TRUE, error |-> ""]
    /\ UNCHANGED <<ctor, lastApply>>
    /\ UNCHANGED mainVars

\* Module.init(key): runs module_init and marks the module initialized
ModuleDotInit(key) ==
    /\ IF ModuleInitFails(self)
       THEN /\ event' = [op |-> "init", ok |-> FALSE, error |-> "ValueError"]
            /\ UNCHANGED <<self, lastInit>>
       ELSE LET r == Conv_module_init(self, key)
            IN /\ self' = [r.self EXCEPT !.initialized = TRUE]
               /\ lastInit' = [happened |-> TRUE,
                               count |-> Min(lastInit.count + 1, MaxCount),
                               key |-> key, shape |-> r.shape,
                               variables |-> r.variables]
               /\ event' = [op |-> "init", ok |-> TRUE, error |-> ""]
    /\ UNCHANGED <<ctor, lastApply>>
    /\ UNCHANGED mainVars

\* self(x)
Call(x) ==
    LET r == Conv_call(self, x)
    IN /\ self' = r.self
       /\ lastApply' = IF r.applied
                       THEN [happened |-> TRUE, module |-> r.apply.module,
                             params |-> r.apply.params,
                             initialized |-> r.apply.initialized]
                       ELSE lastApply
       /\ event' = [op |-> "__call__", ok |-> r.ok, error |-> r.error]
       /\ UNCHANGED <<ctor, lastInit>>
       /\ UNCHANGED mainVars

Next ==
    \/ \E key \in 1..MaxKey : ModuleInit(key)
    \/ \E key \in 1..MaxKey : ModuleDotInit(key)
    \/ \E x \in XShapes : Call(x)

Spec == Init /\ [][Next]_vars

----------------------------------------------------------------------------
(* treex trees, as far as examples/cnn.py relies on them.  A model is a tree *)
(* with a Parameter leaf and a state leaf (batch statistics, rng), plus the  *)
(* static training flag; a missing leaf (Nothing) is None.                    *)

\* tx.Sequential(...).init(seed)
ModelInit(seed) ==
    [params |-> Some(seed % ValMod), state |-> Some(0), training |-> TRUE]

\* model.filter(tx.Parameter): only the Parameter leaves are kept
Filter(m) == [m EXCEPT !.state = None]

\* model.update(other): the leaves present in other replace those of model
Update(m, other) ==
    [m EXCEPT !.params = IF other.params # None THEN other.params ELSE @,
              !.state = IF other.state # None THEN other.state ELSE @]

\* model.train() and model.eval()
Train(m) == [m EXCEPT !.training = TRUE]
Eval(m) == [m EXCEPT !.training = FALSE]

\* model(x): the prediction, and the model with the state leaves the forward
\* pass leaves behind (batch statistics and rng advance in training mode only)
Forward(m, x) ==
    [y_pred |-> (m.params[1] + m.state[1] + x) % ValMod,
     model |-> IF m.training
               THEN [m EXCEPT !.state = Some((m.state[1] + x + 1) % ValMod)]
               ELSE m]

\* tx.Optimizer(optax.adamw(1e-3))
NewOptimizer == [initialized |-> FALSE, opt_state |-> 0]

\* optimizer.init(params)
OptimizerInit(opt, params) ==
    [opt EXCEPT !.initialized = TRUE, !.opt_state = params.params[1]]

\* optimizer.apply_updates(grads, params): the new parameters; the optimizer
\* object carries the new optimizer state afterwards
ApplyUpdates(opt, grads, params) ==
    [params |-> [params EXCEPT
                   !.params = Some((@[1] + grads.params[1] + opt.opt_state) % ValMod)],
     optimizer |-> [opt EXCEPT !.opt_state = (@ + grads.params[1] + 1) % ValMod]]

----------------------------------------------------------------------------
(* examples/cnn.py *)

\* loss_fn(params, model, x, y) -> loss, (model, acc_batch)
loss_fn(params, m, x, y) ==
    LET model0 == Update(m, params)
        fwd == Forward(model0, x)
    IN [loss |-> (fwd.y_pred + y) % ValMod,
        model |-> fwd.model,
        acc_batch |-> (fwd.y_pred = (y % ValMod))]

\* jax.value_and_grad(loss_fn, has_aux=True)(params, model, x, y): the value
\* of loss_fn and the gradient with respect to its first argument, a tree of
\* the structure of params
ValueAndGrad(params, m, x, y) ==
    [value |-> loss_fn(params, m, x, y),
     grads |-> [params EXCEPT
                  !.params = Some((@[1] + Update(m, params).state[1] + x + y + 1)
                                    % ValMod)]]

\* A bug: the model that came in, not the one loss_fn returned, is updated
\* and returned
train_step_drops_forward(m, opt, x, y) ==
    LET params == Filter(m)
        vg == ValueAndGrad(params, m, x, y)
        upd == ApplyUpdates(opt, vg.grads, params)
    IN [loss |-> vg.value.loss,
        model |-> Update(m, upd.params),
        optimizer |-> upd.optimizer,
        acc_batch |-> vg.value.acc_batch,
        calls |-> [filter |-> m,
                   value_and_grad |-> [params |-> params, model |-> m],
                   apply_updates |-> [grads |-> vg.grads, params |-> params],
                   update |-> [model |-> m, params |-> upd.params]]]

\* train_step(model, optimizer, x, y) -> loss, model, optimizer, acc_batch;
\* calls: the arguments of the calls it made
train_step(m, opt, x, y) ==
    LET params == Filter(m)
        vg == ValueAndGrad(params, m, x, y)
        model1 == vg.value.model
        upd == ApplyUpdates(opt, vg.grads, params)
        model2 == Update(model1, upd.params)
    IN [loss |-> vg.value.loss,
        model |-> model2,
        optimizer |-> upd.optimizer,
        acc_batch |-> vg.value.acc_batch,
        calls |-> [filter |-> m,
                   value_and_grad |-> [params |-> params, model |-> m],
                   apply_updates |-> [grads |-> vg.grads, params |-> params],
                   update |-> [model |-> model1, params |-> upd.params]]]

\* test_step(model, x, y) -> loss, acc_batch
test_step(m, x, y) ==
    LET r == loss_fn(m, m, x, y)
    IN [loss |-> r.loss, acc_batch |-> r.acc_batch]

\* predict(model, x)
predict(m, x) == Forward(m, x).y_pred

\* The number of iterations of the training and of the test loop
TrainSteps == IF args.steps_per_epoch < 1 THEN args.n_train ELSE args.steps_per_epoch
TestSteps == IF args.steps_per_epoch < 1 THEN args.n_test ELSE args.steps_per_epoch

ConvIdle ==
    /\ ctor = CHOOSE a \in CtorArgs : TRUE
    /\ self = Conv_init(ctor)
    /\ lastInit = [happened |-> FALSE, count |-> 0, key |-> 0, shape |-> <<>>,
                   variables |-> NoVariables]
    /\ lastApply = NoApply
    /\ event = [op |-> "__init__", ok |-> TRUE, error |-> ""]

InitMain ==
    /\ ConvIdle
    /\ pc = "start"
    /\ args \in [epochs : 0..MaxEpochs, steps_per_epoch : (0 - 1)..MaxSteps,
                 n_train : 0..MaxSteps, n_test : 0..MaxSteps]
    /\ epoch = 0
    /\ step = 0
    /\ model = None
    /\ optimizer = None
    /\ mode = [switch |-> "none", epoch |-> 0, n |-> 0]
    /\ trace = [opt_inits |-> <<>>, op |-> "none", mode |-> mode, epoch |-> 0,
                training |-> FALSE, out |-> 0, k |-> 0, prev |-> None,
                call |-> None]

\* model = tx.Sequential(...).init(42)
BuildModel ==
    /\ pc = "start"
    /\ model' = Some(ModelInit(42))
    /\ pc' = "optimizer"
    /\ UNCHANGED <<args, epoch, step, optimizer, mode, trace>>
    /\ UNCHANGED convVars

\* optimizer = tx.Optimizer(...); optimizer = optimizer.init(model.filter(tx.Parameter))
BuildOptimizer ==
    /\ pc = "optimizer"
    /\ optimizer' = Some(OptimizerInit(NewOptimizer, Filter(model[1])))
    /\ trace' = [trace EXCEPT !.opt_inits = Append(@, Filter(model[1]))]
    /\ epoch' = 0
    /\ pc' = "epoch"
    /\ UNCHANGED <<args, step, model, mode>>
    /\ UNCHANGED convVars

\* for epoch in range(epochs)
EpochLoop ==
    /\ pc = "epoch"
    /\ pc' = IF epoch < args.epochs THEN "train" ELSE "final_eval"
    /\ UNCHANGED <<args, epoch, step, model, optimizer, mode, trace>>
    /\ UNCHANGED convVars

\* A bug: the training loop entered without the switch to training mode
TrainSwitch_missing ==
    /\ pc = "train"
    /\ step' = 0
    /\ pc' = "train_loop"
    /\ UNCHANGED <<args, epoch, model, optimizer, mode, trace>>
    /\ UNCHANGED convVars

\* model = model.train()
TrainSwitch ==
    /\ pc = "train"
    /\ model' = Some(Train(model[1]))
    /\ mode' = [switch |-> "train", epoch |-> epoch, n |-> mode.n + 1]
    /\ step' = 0
    /\ pc' = "train_loop"
    /\ UNCHANGED <<args, epoch, optimizer, trace>>
    /\ UNCHANGED convVars

\* One iteration of the training loop:
\* loss, model, optimizer, acc = train_step(model, optimizer, x, y)
TrainLoop(idx) ==
    /\ pc = "train_loop"
    /\ step < TrainSteps
    /\ LET r == train_step(model[1], optimizer[1], idx, idx)
       IN /\ model' = Some(r.model)
          /\ optimizer' = Some(r.optimizer)
          /\ trace' = [trace EXCEPT
                         !.op = "train_step", !.mode = mode, !.epoch = epoch,
                         !.training = model[1].training,
                         !.out = r.loss, !.k = @ + 1,
                         !.prev = IF trace.k = 0 THEN None
                                  ELSE Some([model |-> trace.call[1].result.model,
                                             optimizer |-> trace.call[1].result.optimizer]),
                         !.call = Some([model |-> model[1], optimizer |-> optimizer[1],
                                        x |-> idx, y |-> idx, result |-> r])]
    /\ step' = step + 1
    /\ UNCHANGED <<pc, args, epoch, mode>>
    /\ UNCHANGED convVars

\* After the training loop: jnp.stack(train_losses) raises ValueError when no
\* step was made
TrainLoopEnd ==
    /\ pc = "train_loop"
    /\ step >= TrainSteps
    /\ pc' = IF TrainSteps <= 0 THEN "error" ELSE "eval"
    /\ UNCHANGED <<args, epoch, step, model, optimizer, mode, trace>>
    /\ UNCHANGED convVars

\* model = model.eval()
EvalSwitch ==
    /\ pc = "eval"
    /\ model' = Some(Eval(model[1]))
    /\ mode' = [switch |-> "eval", epoch |-> epoch, n |-> mode.n + 1]
    /\ step' = 0
    /\ pc' = "test_loop"
    /\ UNCHANGED <<args, epoch, optimizer, trace>>
    /\ UNCHANGED convVars

\* One iteration of the test loop: loss, acc = test_step(model, x, y)
TestLoop(idx) ==
    /\ pc = "test_loop"
    /\ step < TestSteps
    /\ LET r == test_step(model[1], idx, idx)
       IN trace' = [trace EXCEPT !.op = "test_step", !.mode = mode, !.epoch = epoch,
                                 !.training = model[1].training,
                                 !.out = r.loss]
    /\ step' = step + 1
    /\ UNCHANGED <<pc, args, epoch, model, optimizer, mode>>
    /\ UNCHANGED convVars

\* After the test loop: jnp.stack(test_losses) raises ValueError when no step
\* was made; otherwise the next epoch
TestLoopEnd ==
    /\ pc = "test_loop"
    /\ step >= TestSteps
    /\ IF TestSteps <= 0
       THEN pc' = "error" /\ UNCHANGED epoch
       ELSE pc' = "epoch" /\ epoch' = epoch + 1
    /\ UNCHANGED <<args, step, model, optimizer, mode, trace>>
    /\ UNCHANGED convVars

\* After the epoch loop: model = model.eval()
FinalEval ==
    /\ pc = "final_eval"
    /\ model' = Some(Eval(model[1]))
    /\ mode' = [switch |-> "eval", epoch |-> epoch, n |-> mode.n + 1]
    /\ pc' = "predict"
    /\ UNCHANGED <<args, epoch, step, optimizer, trace>>
    /\ UNCHANGED convVars

\* y_pred = predict(model, x_sample)
Predict(idx) ==
    /\ pc = "predict"
    /\ LET y_pred == predict(model[1], idx)
       IN trace' = [trace EXCEPT !.op = "predict", !.mode = mode, !.epoch = epoch,
                                 !.training = model[1].training,
                                 !.out = y_pred]
    /\ pc' = "done"
    /\ UNCHANGED <<args, epoch, step, model, optimizer, mode>>
    /\ UNCHANGED convVars

NextMain ==
    \/ BuildModel
    \/ BuildOptimizer
    \/ EpochLoop
    \/ TrainSwitch
    \/ \E idx \in 0..(MaxIdx - 1) : TrainLoop(idx)
    \/ TrainLoopEnd
    \/ EvalSwitch
    \/ \E idx \in 0..(MaxIdx - 1) : TestLoop(idx)
    \/ TestLoopEnd
    \/ FinalEval
    \/ \E idx \in 0..(MaxIdx - 1) : Predict(idx)

SpecMain == InitMain /\ [][NextMain]_vars

----------------------------------------------------------------------------
(* Properties *)

\* C1: __call__ on a Conv that is not initialized fails with
\* "Module not initialized", and the wrapped flax Conv is never applied on
\* behalf of a module that is not initialized.
C1_NoApplyBeforeInit ==
    /\ lastApply.happened => lastApply.initialized
    /\ (event.op = "__call__" /\ ~self.initialized) =>
          (~event.ok /\ event.error = "Module not initialized" /\ ~lastApply.happened)

\* C1 witness: __call__ was refused on a module whose kernel had already been
\* set by a direct module_init
C1_Witness ==
    /\ event.op = "__call__"
    /\ ~self.initialized
    /\ self.kernel # None
    /\ event.error = "Module not initialized"

\* C2: the wrapped module is a flax Conv with features = features_out and every
\* other field equal to the constructor's argument; it has no features_in
\* field; the module __call__ applied is that module.
C2_WrappedModule ==
    LET m == Conv_module(self)
    IN /\ DOMAIN m = {"features", "kernel_size", "strides", "padding",
                      "input_dilation", "kernel_dilation", "feature_group_count",
                      "use_bias", "dtype", "precision", "kernel_init", "bias_init"}
       /\ m.features = ctor.features_out
       /\ m.kernel_size = ctor.kernel_size
       /\ m.strides = ctor.options.strides
       /\ m.padding = ctor.options.padding
       /\ m.input_dilation = ctor.options.input_dilation
       /\ m.kernel_dilation = ctor.options.kernel_dilation
       /\ m.feature_group_count = ctor.options.feature_group_count
       /\ m.use_bias = ctor.use_bias
       /\ m.dtype = ctor.options.dtype
       /\ m.precision = ctor.options.precision
       /\ m.kernel_init = ctor.options.kernel_init
       /\ m.bias_init = ctor.options.bias_init
       /\ lastApply.happened => lastApply.module = m
       /\ lastInit.happened =>
            lastInit.variables.params.kernel[1].shape[Len(ctor.kernel_size.dims) + 2]
              = ctor.features_out

\* C2 witness: a Conv built with every keyword argument given and
\* features_in # features_out has been initialized and applied
C2_Witness ==
    /\ lastApply.happened
    /\ event.ok
    /\ ctor.options = CustomOptions
    /\ ctor.features_in # ctor.features_out

\* C3: before any module_init completes kernel and bias are None; after one,
\* kernel is the "kernel" entry of the params flax returned and bias is set
\* exactly when use_bias is true.
C3_KernelAndBias ==
    /\ ~lastInit.happened => (self.kernel = None /\ self.bias = None)
    /\ lastInit.happened =>
         /\ self.kernel = Some(lastInit.variables.params.kernel[1])
         /\ (self.bias # None) <=> self.use_bias
         /\ self.use_bias => self.bias = Some(lastInit.variables.params.bias[1])

\* C3 witness: module_init has completed more than once on a Conv without bias
C3_Witness ==
    /\ lastInit.count >= 2
    /\ ~self.use_bias
    /\ self.bias = None
    /\ self.kernel # None

\* C4: the dummy input of module_init has shape [m, m+1, ..., m+n-1, features_in]
\* with n = 1, m = 2*kernel_size for an int kernel_size and n = len(kernel_size),
\* m = 2*min(kernel_size) for a sequence: n+1 entries, the last features_in.
C4_DummyShape ==
    lastInit.happened =>
        LET ks == ctor.kernel_size.dims
            n == IF ctor.kernel_size.isInt THEN 1 ELSE Len(ks)
            least == CHOOSE d \in {ks[i] : i \in 1..Len(ks)} :
                        \A j \in 1..Len(ks) : d <= ks[j]
            m == 2 * least
            shape == lastInit.shape
        IN /\ Len(shape) = n + 1
           /\ shape[n + 1] = ctor.features_in
           /\ \A i \in 1..n : shape[i] = m + i - 1

\* C4 witness: module_init completed for a two-dimensional kernel_size whose
\* smallest entry is not the first
C4_Witness ==
    /\ lastInit.happened
    /\ ~ctor.kernel_size.isInt
    /\ Len(ctor.kernel_size.dims) = 2
    /\ ctor.kernel_size.dims[2] < ctor.kernel_size.dims[1]
    /\ Len(lastInit.shape) = 3

\* C5: a step that is a __call__, whether it returns or fails, leaves kernel,
\* bias and every hyperparameter of the Conv as they were.
C5_CallIsPure == [][event'.op = "__call__" => self' = self]_vars

\* C5 witness: a __call__ has returned an output on an initialized Conv
C5_Witness ==
    /\ event.op = "__call__"
    /\ event.ok
    /\ self.kernel # None

\* C6: every train_step of epoch e runs after exactly the switches
\* train(), eval() of each earlier epoch and the train() of epoch e, every
\* test_step of epoch e after the eval() of epoch e as well, and predict after
\* the eval() that follows the epoch loop: the most recent switch is train()
\* for a train_step and eval() for a test_step and for predict, made in the
\* same epoch, with no other switch in between.
C6_ModeSwitches ==
    /\ trace.op = "train_step" =>
         /\ trace.mode = [switch |-> "train", epoch |-> trace.epoch,
                          n |-> 2 * trace.epoch + 1]
         /\ trace.training
    /\ trace.op = "test_step" =>
         /\ trace.mode = [switch |-> "eval", epoch |-> trace.epoch,
                          n |-> 2 * trace.epoch + 2]
         /\ ~trace.training
    /\ trace.op = "predict" =>
         /\ trace.mode = [switch |-> "eval", epoch |-> args.epochs,
                          n |-> 2 * args.epochs + 1]
         /\ ~trace.training

\* C6 witness: the program finished after two full epochs, so train and test
\* steps ran in the second epoch and predict ran
C6_Witness ==
    /\ pc = "done"
    /\ trace.op = "predict"
    /\ args.epochs >= 2
    /\ trace.k >= 2

\* C7: the optimizer is initialized once, with the parameters of the model
\* after init(42), before any train_step; a train_step filters the parameters
\* of the model it is given, differentiates with respect to them, gives those
\* gradients and those parameters to apply_updates, and returns the model of
\* loss_fn's forward pass updated with the new parameters; step k+1 is given
\* the model and the optimizer step k returned.
C7_TrainStepThreading ==
    /\ Len(trace.opt_inits) <= 1
    /\ pc \notin {"start", "optimizer"} => trace.opt_inits = <<Filter(ModelInit(42))>>
    /\ trace.k >= 1 => Len(trace.opt_inits) = 1
    /\ trace.call # None =>
         LET c == trace.call[1]
             r == c.result
             p == [c.model EXCEPT !.state = None]
             vg == ValueAndGrad(p, c.model, c.x, c.y)
             new == ApplyUpdates(c.optimizer, vg.grads, p)
         IN /\ r.calls.filter = c.model
            /\ r.calls.value_and_grad = [params |-> p, model |-> c.model]
            /\ r.calls.apply_updates = [grads |-> vg.grads, params |-> p]
            /\ r.calls.update = [model |-> loss_fn(p, c.model, c.x, c.y).model,
                                 params |-> new.params]
            /\ r.model.params = new.params.params
            /\ r.model.state = loss_fn(p, c.model, c.x, c.y).model.state
            /\ r.model.training = c.model.training
            /\ r.optimizer = new.optimizer
            /\ trace.k > 1 =>
                 trace.prev = Some([model |-> c.model, optimizer |-> c.optimizer])

\* C7 witness: the first train_step of the second epoch has run, on the model
\* and optimizer the last train_step of the first epoch returned
C7_Witness ==
    /\ trace.op = "train_step"
    /\ trace.epoch = 1
    /\ trace.k >= 2
    /\ step = 1
    /\ trace.prev = Some([model |-> trace.call[1].model,
                          optimizer |-> trace.call[1].optimizer])

====
